---- MODULE Spec2Model ----
(***************************************************************************)
(* Model of the filter registry of the-hook (src/src/lib.rs): the global   *)
(* map FILTERS behind an RwLock, the atomic FILTER_ID_COUNTER, and the     *)
(* four operations add_filter, apply_filters, remove_filter and            *)
(* remove_all_filters, each run by a thread as a sequence of atomic steps. *)
(***************************************************************************)
EXTENDS Integers, Sequences, FiniteSets, TLC

VARIABLES FILTERS, FILTER_ID_COUNTER, lock, pc, local, allocated

vars == <<FILTERS, FILTER_ID_COUNTER, lock, pc, local, allocated>>

\* ------------------------------------------------------------ bounds
\* Allocation stops once the counter has passed the bound: MaxIds when
\* two threads call concurrently (Spec), MaxIdsSeq when one thread calls
\* (SpecSeq).
MaxIds == 2
MaxIdsSeq == 3

\* ------------------------------------------------------------ inputs
Threads == {"t1", "t2"}
Hooks == {"H1", "H2"}
Priorities == {10, 20}
\* The closures the callers register: |v: i32| v + 1, |v: i32| v * 3 and
\* |s: String| s.to_uppercase().
Callbacks == {"add1", "mul3", "upper"}
TypeIds == {"i32", "String"}
None == "none"

\* TypeId::of::<T>() for the T of a closure Fn(T) -> T.
TypeOf(cb) == IF cb = "upper" THEN "String" ELSE "i32"

\* The values callers dispatch, by type.
ValuesOf(T) == IF T = "i32" THEN {0, 4} ELSE {"world"}

to_uppercase(s) == IF s = "world" THEN "WORLD" ELSE s

\* The user closure applied to a value of its own type.
Call(cb, v) ==
    CASE cb = "add1" -> v + 1
      [] cb = "mul3" -> v * 3
      [] cb = "upper" -> to_uppercase(v)

\* Box<dyn Any>: a value together with the TypeId of its concrete type.
BoxAny(T, v) == [type_id |-> T, v |-> v]

\* The struct Filter.
Filter(id, priority, cb) ==
    [id |-> id, priority |-> priority, callback |-> cb, type_id |-> TypeOf(cb)]

\* ------------------------------------------------------------ helpers
\* Mutant of InsertSorted: the sort runs on the reversed key.
InsertSortedDescending(s, f) ==
    LET k == Cardinality({i \in 1..Len(s) : s[i].priority >= f.priority})
    IN  SubSeq(s, 1, k) \o <<f>> \o SubSeq(s, k + 1, Len(s))

\* Mutant of InsertSorted: an unstable sort, f goes before the elements
\* whose key equals its own.
InsertSortedBeforeEquals(s, f) ==
    LET k == Cardinality({i \in 1..Len(s) : s[i].priority < f.priority})
    IN  SubSeq(s, 1, k) \o <<f>> \o SubSeq(s, k + 1, Len(s))

\* One insertion of a stable sort: f goes after every element whose key is
\* not greater than its own.
InsertSorted(s, f) ==
    LET k == Cardinality({i \in 1..Len(s) : s[i].priority <= f.priority})
    IN  SubSeq(s, 1, k) \o <<f>> \o SubSeq(s, k + 1, Len(s))

\* Vec::sort_by_key(|f| f.priority): a stable sort.
RECURSIVE SortByKey(_)
SortByKey(s) ==
    IF s = <<>> THEN <<>>
    ELSE InsertSorted(SortByKey(SubSeq(s, 1, Len(s) - 1)), s[Len(s)])

\* Mutant of Insert: a filter whose declared type differs from that of an
\* entry of the hook is refused.
InsertRejectsMixedTypes(F, hook, filter) ==
    IF hook \in DOMAIN F
          /\ \E k \in 1..Len(F[hook]) : F[hook][k].type_id # filter.type_id
    THEN F
    ELSE [k \in DOMAIN F \cup {hook} |->
            IF k = hook
            THEN SortByKey(Append(IF hook \in DOMAIN F THEN F[hook] ELSE <<>>,
                                  filter))
            ELSE F[k]]

\* Mutant of Insert: the hook's list is replaced by one holding the new
\* filter alone (HashMap::insert), which loses the entries already there.
InsertOverwrites(F, hook, filter) ==
    [k \in DOMAIN F \cup {hook} |-> IF k = hook THEN <<filter>> ELSE F[k]]

\* Mutant of Insert: the filter is pushed and the list is not sorted.
InsertNoSort(F, hook, filter) ==
    [k \in DOMAIN F \cup {hook} |->
        IF k = hook
        THEN Append(IF hook \in DOMAIN F THEN F[hook] ELSE <<>>, filter)
        ELSE F[k]]

\* filters.entry(hook).or_insert_with(Vec::new); entry.push(filter);
\* entry.sort_by_key(..)
Insert(F, hook, filter) ==
    LET entry == IF hook \in DOMAIN F THEN F[hook] ELSE <<>>
        pushed == Append(entry, filter)
    IN  [k \in DOMAIN F \cup {hook} |->
            IF k = hook THEN SortByKey(pushed) ELSE F[k]]

\* Mutant of Retain: the entry is taken out with Vec::swap_remove, which
\* moves the last entry into its place.
RetainSwapRemove(list, id) ==
    IF \E k \in 1..Len(list) : list[k].id = id
    THEN LET k == CHOOSE k \in 1..Len(list) : list[k].id = id
         IN  SubSeq([list EXCEPT ![k] = list[Len(list)]], 1, Len(list) - 1)
    ELSE list

\* list.retain(|f| f.id != id)
Retain(list, id) == SelectSeq(list, LAMBDA f : f.id # id)

\* Mutant of RetainIn: the list is looked up with entry(hook).or_default(),
\* which creates a missing hook.
RetainInCreates(F, hook, id) ==
    [k \in DOMAIN F \cup {hook} |->
        IF k \notin DOMAIN F THEN <<>>
        ELSE IF k = hook THEN SelectSeq(F[k], LAMBDA f : f.id # id)
        ELSE F[k]]

\* Mutant of RetainIn: the id is looked for in every hook's list, not only
\* in the list of the hook that was named.
RetainInEveryHook(F, hook, id) ==
    [k \in DOMAIN F |-> Retain(F[k], id)]

\* The registry after `if let Some(list) = filters.get_mut(hook) {
\* list.retain(..) }`.
RetainIn(F, hook, id) ==
    IF hook \in DOMAIN F
    THEN [F EXCEPT ![hook] = Retain(F[hook], id)]
    ELSE F

\* Mutant of RemoveKey: the hook's list is emptied with clear(), the key
\* stays.
RemoveKeyClearsList(F, hook) ==
    [k \in DOMAIN F |-> IF k = hook THEN <<>> ELSE F[k]]

\* Mutant of RemoveKey: the whole map is emptied with filters.clear().
RemoveKeyClearsMap(F, hook) == << >>

\* filters.remove(hook)
RemoveKey(F, hook) == [k \in DOMAIN F \ {hook} |-> F[k]]

\* Box<dyn Any>::downcast::<T>() succeeds exactly when the box holds a T.
Downcasts(box, T) == box.type_id = T

\* Mutant of Wrapped: the wrapper boxes its argument, not the closure's
\* result.
WrappedDropsResult(filter, box) == BoxAny(filter.type_id, box.v)

\* The wrapper closure of add_filter, on a box its downcast accepts: call
\* the user closure on the value and box the result.
Wrapped(filter, box) ==
    BoxAny(filter.type_id, Call(filter.callback, box.v))

\* The i-th item `for filter in filter_list` yields.
IterItem(list, i) == list[i]

\* ------------------------------------------------------------ state
Idle == [op |-> "idle"]
\* A thread unwound by a panic with the given message: its frame is gone.
Panicked(msg) == [op |-> "panicked", msg |-> msg]

Init ==
    /\ FILTERS = << >>
    /\ FILTER_ID_COUNTER = 1
    /\ lock = [writer |-> None, readers |-> {}]
    /\ pc = [t \in Threads |-> "idle"]
    /\ local = [t \in Threads |-> Idle]
    /\ allocated = {}

\* Mutant of CanWrite: a lock that lets a writer in while read guards are
\* held (an upgradable or re-entrant lock).
CanWriteIgnoresReaders == lock.writer = None

\* Mutant of CanWrite: an upgradable lock, which lets a writer in while
\* at most one read guard is held.
CanWriteUpgrades == lock.writer = None /\ Cardinality(lock.readers) <= 1

\* Mutant of CanRead: a mutex, one reader at a time.
CanReadExclusive == lock.writer = None /\ lock.readers = {}

\* RwLock::write() returns once no guard is held; RwLock::read() once no
\* write guard is held.
CanWrite == lock.writer = None /\ lock.readers = {}
CanRead == lock.writer = None

\* ------------------------------------------------------------ add_filter
\* Mutant of AddAllocUpTo: the counter is read with load, not fetch_add.
AddAllocLoads(t, limit) ==
    /\ pc[t] = "idle"
    /\ FILTER_ID_COUNTER <= limit
    /\ \E hook \in Hooks, priority \in Priorities, cb \in Callbacks :
          local' = [local EXCEPT ![t] =
                      [op |-> "add_filter", hook |-> hook,
                       filter |-> Filter(FILTER_ID_COUNTER, priority, cb)]]
    /\ allocated' = allocated \cup {FILTER_ID_COUNTER}
    /\ pc' = [pc EXCEPT ![t] = "add_write"]
    /\ UNCHANGED <<FILTERS, FILTER_ID_COUNTER, lock>>

\* let id = FILTER_ID_COUNTER.fetch_add(1, SeqCst); let filter = Filter {..}
\* `allocated` records every id handed out so far.
AddAllocFrom(t, from, limit) ==
    /\ pc[t] = from
    /\ FILTER_ID_COUNTER <= limit
    /\ \E hook \in Hooks, priority \in Priorities, cb \in Callbacks :
          local' = [local EXCEPT ![t] =
                      [op |-> "add_filter", hook |-> hook,
                       filter |-> Filter(FILTER_ID_COUNTER, priority, cb)]]
    /\ allocated' = allocated \cup {FILTER_ID_COUNTER}
    /\ FILTER_ID_COUNTER' = FILTER_ID_COUNTER + 1
    /\ pc' = [pc EXCEPT ![t] = "add_write"]
    /\ UNCHANGED <<FILTERS, lock>>

AddAllocUpTo(t, limit) == AddAllocFrom(t, "idle", limit)

AddAlloc(t) == AddAllocUpTo(t, MaxIds)

\* FILTERS.write(); entry(..).or_insert_with(..); push; sort_by_key
AddInsert(t) ==
    /\ pc[t] = "add_write"
    /\ CanWrite
    /\ lock' = [lock EXCEPT !.writer = t]
    /\ FILTERS' = Insert(FILTERS, local[t].hook, local[t].filter)
    /\ pc' = [pc EXCEPT ![t] = "add_return"]
    /\ UNCHANGED <<FILTER_ID_COUNTER, local, allocated>>

\* id  (the write guard is dropped as the function returns)
AddReturn(t) ==
    /\ pc[t] = "add_return"
    /\ lock' = [lock EXCEPT !.writer = None]
    /\ pc' = [pc EXCEPT ![t] = "idle"]
    /\ local' = [local EXCEPT ![t] = Idle]
    /\ UNCHANGED <<FILTERS, FILTER_ID_COUNTER, allocated>>

\* ------------------------------------------------------------ apply_filters
\* let filters = FILTERS.read().unwrap();
ApplyReadFrom(t, from) ==
    /\ pc[t] = from
    /\ CanRead
    /\ \E hook \in Hooks, T \in TypeIds :
         \E value \in ValuesOf(T) :
            local' = [local EXCEPT ![t] =
                        [op |-> "apply_filters", hook |-> hook, T |-> T,
                         value |-> value]]
    /\ lock' = [lock EXCEPT !.readers = @ \cup {t}]
    /\ pc' = [pc EXCEPT ![t] = "apply_get"]
    /\ UNCHANGED <<FILTERS, FILTER_ID_COUNTER, allocated>>

ApplyRead(t) == ApplyReadFrom(t, "idle")

\* Mutant of ApplyGet: the lookup is entry(hook).or_default(), which
\* creates a missing hook.
ApplyGetCreates(t) ==
    /\ pc[t] = "apply_get"
    /\ FILTERS' = [k \in DOMAIN FILTERS \cup {local[t].hook} |->
                     IF k \in DOMAIN FILTERS THEN FILTERS[k] ELSE <<>>]
    /\ local' = [local EXCEPT ![t] =
                   [op |-> "apply_filters", hook |-> local[t].hook,
                    T |-> local[t].T, value |-> local[t].value,
                    result |-> BoxAny(local[t].T, local[t].value),
                    i |-> 1, invoked |-> <<>>]]
    /\ pc' = [pc EXCEPT ![t] = "apply_loop"]
    /\ UNCHANGED <<FILTER_ID_COUNTER, lock, allocated>>

\* match filters.get(hook) { Some(list) => list, None => return value };
\* let mut result: Box<dyn Any> = Box::new(value);
ApplyGet(t) ==
    /\ pc[t] = "apply_get"
    /\ IF local[t].hook \in DOMAIN FILTERS
       THEN /\ local' = [local EXCEPT ![t] =
                          [op |-> "apply_filters", hook |-> local[t].hook,
                           T |-> local[t].T, value |-> local[t].value,
                           result |-> BoxAny(local[t].T, local[t].value),
                           i |-> 1, invoked |-> <<>>]]
            /\ pc' = [pc EXCEPT ![t] = "apply_loop"]
       ELSE /\ local' = [local EXCEPT ![t] =
                          [op |-> "apply_filters", hook |-> local[t].hook,
                           T |-> local[t].T, value |-> local[t].value,
                           invoked |-> <<>>, ret |-> local[t].value]]
            /\ pc' = [pc EXCEPT ![t] = "apply_return"]
    /\ UNCHANGED <<FILTERS, FILTER_ID_COUNTER, lock, allocated>>

\* Mutant of ApplyIterate: an entry of another type is skipped with
\* `continue`, not answered with a panic.
ApplyIterateSkips(t) ==
    /\ pc[t] = "apply_loop"
    /\ local[t].i <= Len(FILTERS[local[t].hook])
    /\ LET filter == IterItem(FILTERS[local[t].hook], local[t].i)
       IN  IF filter.type_id = local[t].T
           THEN local' = [local EXCEPT ![t].result = Wrapped(filter, @),
                                       ![t].i = @ + 1,
                                       ![t].invoked = Append(@, filter)]
           ELSE local' = [local EXCEPT ![t].i = @ + 1]
    /\ UNCHANGED <<FILTERS, FILTER_ID_COUNTER, lock, pc, allocated>>

\* Mutant of ApplyIterate: the read guard outlives the panic (it is leaked,
\* as with mem::forget, not dropped by the unwinding).
ApplyIterateKeepsGuard(t) ==
    /\ pc[t] = "apply_loop"
    /\ local[t].i <= Len(FILTERS[local[t].hook])
    /\ LET filter == IterItem(FILTERS[local[t].hook], local[t].i)
       IN  IF /\ filter.type_id = local[t].T
              /\ Downcasts(local[t].result, filter.type_id)
           THEN /\ local' = [local EXCEPT ![t].result = Wrapped(filter, @),
                                          ![t].i = @ + 1,
                                          ![t].invoked = Append(@, filter)]
                /\ pc' = [pc EXCEPT ![t] = "apply_loop"]
           ELSE /\ local' = [local EXCEPT ![t] =
                              Panicked("Type mismatch for filter hook")]
                /\ pc' = [pc EXCEPT ![t] = "panicked"]
    /\ UNCHANGED <<FILTERS, FILTER_ID_COUNTER, lock, allocated>>

\* One iteration of `for filter in filter_list`: the type check, then
\* either the callback or the panic. A panic unwinds the thread, which
\* drops its read guard (a read guard does not poison the lock).
ApplyIterate(t) ==
    /\ pc[t] = "apply_loop"
    /\ local[t].i <= Len(FILTERS[local[t].hook])
    /\ LET filter == IterItem(FILTERS[local[t].hook], local[t].i)
       IN  IF /\ filter.type_id = local[t].T
              /\ Downcasts(local[t].result, filter.type_id)
           THEN /\ local' = [local EXCEPT ![t].result = Wrapped(filter, @),
                                          ![t].i = @ + 1,
                                          ![t].invoked = Append(@, filter)]
                /\ pc' = [pc EXCEPT ![t] = "apply_loop"]
                /\ lock' = lock
           ELSE /\ local' = [local EXCEPT ![t] =
                              Panicked(IF filter.type_id = local[t].T
                                       THEN "Type mismatch in filter"
                                       ELSE "Type mismatch for filter hook")]
                /\ pc' = [pc EXCEPT ![t] = "panicked"]
                /\ lock' = [lock EXCEPT !.readers = @ \ {t}]
    /\ UNCHANGED <<FILTERS, FILTER_ID_COUNTER, allocated>>

\* *result.downcast::<T>().expect("Type mismatch in final value")
ApplyDowncast(t) ==
    /\ pc[t] = "apply_loop"
    /\ local[t].i > Len(FILTERS[local[t].hook])
    /\ IF Downcasts(local[t].result, local[t].T)
       THEN /\ local' = [local EXCEPT ![t] =
                          [op |-> "apply_filters", hook |-> local[t].hook,
                           T |-> local[t].T, value |-> local[t].value,
                           invoked |-> local[t].invoked,
                           ret |-> local[t].result.v]]
            /\ pc' = [pc EXCEPT ![t] = "apply_return"]
            /\ lock' = lock
       ELSE /\ local' = [local EXCEPT ![t] =
                          Panicked("Type mismatch in final value")]
            /\ pc' = [pc EXCEPT ![t] = "panicked"]
            /\ lock' = [lock EXCEPT !.readers = @ \ {t}]
    /\ UNCHANGED <<FILTERS, FILTER_ID_COUNTER, allocated>>

\* Mutant of ApplyReturn: the read guard is leaked (mem::forget), not
\* dropped, when the value is returned.
ApplyReturnKeepsGuard(t) ==
    /\ pc[t] = "apply_return"
    /\ pc' = [pc EXCEPT ![t] = "idle"]
    /\ local' = [local EXCEPT ![t] = Idle]
    /\ UNCHANGED <<FILTERS, FILTER_ID_COUNTER, lock, allocated>>

\* The value is returned and the read guard dropped.
ApplyReturn(t) ==
    /\ pc[t] = "apply_return"
    /\ lock' = [lock EXCEPT !.readers = @ \ {t}]
    /\ pc' = [pc EXCEPT ![t] = "idle"]
    /\ local' = [local EXCEPT ![t] = Idle]
    /\ UNCHANGED <<FILTERS, FILTER_ID_COUNTER, allocated>>

\* ------------------------------------------------------------ remove_filter
\* FILTERS.write(); if let Some(list) = filters.get_mut(hook) { retain;
\* return list.len() != orig_len } false
RemoveRetainFrom(t, from) ==
    /\ pc[t] = from
    /\ CanWrite
    /\ lock' = [lock EXCEPT !.writer = t]
    /\ \E hook \in Hooks, id \in 1..MaxIdsSeq :
         /\ FILTERS' = RetainIn(FILTERS, hook, id)
         /\ local' = [local EXCEPT ![t] =
                        [op |-> "remove_filter", hook |-> hook, id |-> id,
                         ret |-> IF hook \in DOMAIN FILTERS
                                 THEN Len(FILTERS'[hook]) # Len(FILTERS[hook])
                                 ELSE FALSE]]
    /\ pc' = [pc EXCEPT ![t] = "remove_return"]
    /\ UNCHANGED <<FILTER_ID_COUNTER, allocated>>

RemoveRetain(t) == RemoveRetainFrom(t, "idle")

\* The boolean is returned and the write guard dropped.
RemoveReturn(t) ==
    /\ pc[t] = "remove_return"
    /\ lock' = [lock EXCEPT !.writer = None]
    /\ pc' = [pc EXCEPT ![t] = "idle"]
    /\ local' = [local EXCEPT ![t] = Idle]
    /\ UNCHANGED <<FILTERS, FILTER_ID_COUNTER, allocated>>

\* ------------------------------------------------------- remove_all_filters
\* FILTERS.write(); filters.remove(hook);  `removed` is whether the
\* discarded Option that HashMap::remove returns was Some.
RemoveAllRemoveFrom(t, from) ==
    /\ pc[t] = from
    /\ CanWrite
    /\ lock' = [lock EXCEPT !.writer = t]
    /\ \E hook \in Hooks :
         /\ FILTERS' = RemoveKey(FILTERS, hook)
         /\ local' = [local EXCEPT ![t] =
                        [op |-> "remove_all_filters", hook |-> hook,
                         removed |-> hook \in DOMAIN FILTERS]]
    /\ pc' = [pc EXCEPT ![t] = "remove_all_return"]
    /\ UNCHANGED <<FILTER_ID_COUNTER, allocated>>

RemoveAllRemove(t) == RemoveAllRemoveFrom(t, "idle")

\* The write guard is dropped as the function returns.
RemoveAllReturn(t) ==
    /\ pc[t] = "remove_all_return"
    /\ lock' = [lock EXCEPT !.writer = None]
    /\ pc' = [pc EXCEPT ![t] = "idle"]
    /\ local' = [local EXCEPT ![t] = Idle]
    /\ UNCHANGED <<FILTERS, FILTER_ID_COUNTER, allocated>>

\* ------------------------------------------------------------ specification
Next ==
    \E t \in Threads :
        \/ AddAlloc(t)
        \/ AddInsert(t)
        \/ AddReturn(t)
        \/ ApplyRead(t)
        \/ ApplyGet(t)
        \/ ApplyIterate(t)
        \/ ApplyDowncast(t)
        \/ ApplyReturn(t)
        \/ RemoveRetain(t)
        \/ RemoveReturn(t)
        \/ RemoveAllRemove(t)
        \/ RemoveAllReturn(t)

Spec == Init /\ [][Next]_vars

\* One calling thread: every call returns before the next is made.
NextSeq ==
    \/ AddAllocUpTo("t1", MaxIdsSeq)
    \/ AddInsert("t1")
    \/ AddReturn("t1")
    \/ ApplyRead("t1")
    \/ ApplyGet("t1")
    \/ ApplyIterate("t1")
    \/ ApplyDowncast("t1")
    \/ ApplyReturn("t1")
    \/ RemoveRetain("t1")
    \/ RemoveReturn("t1")
    \/ RemoveAllRemove("t1")
    \/ RemoveAllReturn("t1")

SpecSeq == Init /\ [][NextSeq]_vars

\* --------------------------------------------- a finite set of calls, fairly
\* Each thread of ThreadsLive makes one call: it is "ready" before the
\* call and "idle" once the call has returned. A call to apply_filters,
\* remove_filter or remove_all_filters first stands before its request
\* for the lock (apply_call, remove_call, remove_all_call), as add_filter
\* stands before write() once it has its id (add_write). The calls start
\* on the empty registry or on the registry that one earlier
\* add_filter("H1", 10, |v: i32| v + 1) has left.
ThreadsLive == {"t1", "t2"}

InitLive ==
    /\ \E earlier \in BOOLEAN :
         /\ FILTERS = IF earlier
                       THEN Insert(<< >>, "H1", Filter(1, 10, "add1"))
                       ELSE << >>
         /\ FILTER_ID_COUNTER = IF earlier THEN 2 ELSE 1
         /\ allocated = IF earlier THEN {1} ELSE {}
    /\ lock = [writer |-> None, readers |-> {}]
    /\ pc = [t \in ThreadsLive |-> "ready"]
    /\ local = [t \in ThreadsLive |-> Idle]

\* The thread enters apply_filters.
ApplyCall(t) ==
    /\ pc[t] = "ready"
    /\ pc' = [pc EXCEPT ![t] = "apply_call"]
    /\ UNCHANGED <<FILTERS, FILTER_ID_COUNTER, lock, local, allocated>>

\* The thread enters remove_filter.
RemoveCall(t) ==
    /\ pc[t] = "ready"
    /\ pc' = [pc EXCEPT ![t] = "remove_call"]
    /\ UNCHANGED <<FILTERS, FILTER_ID_COUNTER, lock, local, allocated>>

\* The thread enters remove_all_filters.
RemoveAllCall(t) ==
    /\ pc[t] = "ready"
    /\ pc' = [pc EXCEPT ![t] = "remove_all_call"]
    /\ UNCHANGED <<FILTERS, FILTER_ID_COUNTER, lock, local, allocated>>

\* The steps of a call that has been entered, up to its return or panic.
Progress(t) ==
    \/ AddInsert(t)
    \/ AddReturn(t)
    \/ ApplyReadFrom(t, "apply_call")
    \/ ApplyGet(t)
    \/ ApplyIterate(t)
    \/ ApplyDowncast(t)
    \/ ApplyReturn(t)
    \/ RemoveRetainFrom(t, "remove_call")
    \/ RemoveReturn(t)
    \/ RemoveAllRemoveFrom(t, "remove_all_call")
    \/ RemoveAllReturn(t)

NextLive ==
    \E t \in ThreadsLive :
        \/ AddAllocFrom(t, "ready", MaxIdsSeq)
        \/ ApplyCall(t)
        \/ RemoveCall(t)
        \/ RemoveAllCall(t)
        \/ AddInsert(t)
        \/ AddReturn(t)
        \/ ApplyReadFrom(t, "apply_call")
        \/ ApplyGet(t)
        \/ ApplyIterate(t)
        \/ ApplyDowncast(t)
        \/ ApplyReturn(t)
        \/ RemoveRetainFrom(t, "remove_call")
        \/ RemoveReturn(t)
        \/ RemoveAllRemoveFrom(t, "remove_all_call")
        \/ RemoveAllReturn(t)

\* Fair scheduling: a thread inside a call is not held back for ever when
\* its next step stays possible. Entering a call is never forced.
FairLive == \A t \in ThreadsLive : WF_vars(Progress(t))

SpecLive == InitLive /\ [][NextLive]_vars /\ FairLive

\* ------------------------------------------- callbacks that call back in
\* Closures Fn(i32) -> i32 whose body calls add_filter, remove_filter or
\* remove_all_filters before it returns.
ReentrantCallbacks ==
    {"calls_add_filter", "calls_remove_filter", "calls_remove_all_filters"}

\* The function of the registry such a closure calls.
InnerOf(cb) ==
    CASE cb = "calls_add_filter" -> "add_filter"
      [] cb = "calls_remove_filter" -> "remove_filter"
      [] cb = "calls_remove_all_filters" -> "remove_all_filters"

\* The registry holds one such closure, left on "H1" by an earlier
\* add_filter call.
InitReenter ==
    /\ \E cb \in ReentrantCallbacks :
         FILTERS = Insert(<< >>, "H1", Filter(1, 10, cb))
    /\ FILTER_ID_COUNTER = 2
    /\ allocated = {1}
    /\ lock = [writer |-> None, readers |-> {}]
    /\ pc = [t \in Threads |-> "idle"]
    /\ local = [t \in Threads |-> Idle]

\* The entry the loop of apply_filters is about to visit holds a closure
\* that calls back in.
Reenters(t) ==
    /\ pc[t] = "apply_loop"
    /\ local[t].i <= Len(FILTERS[local[t].hook])
    /\ IterItem(FILTERS[local[t].hook], local[t].i).callback
          \in ReentrantCallbacks

\* One iteration of the loop on such an entry: after the type check the
\* wrapper runs the closure, which enters the inner function on some hook
\* and comes to stand before its FILTERS.write(), the read guard of
\* apply_filters still held. An inner add_filter has taken its id by then.
ApplyIterateReenter(t) ==
    /\ Reenters(t)
    /\ LET filter == IterItem(FILTERS[local[t].hook], local[t].i)
       IN  IF /\ filter.type_id = local[t].T
              /\ Downcasts(local[t].result, filter.type_id)
           THEN /\ \E hook \in Hooks :
                     local' = [local EXCEPT ![t] =
                                 [op |-> "apply_filters",
                                  hook |-> local[t].hook,
                                  invoked |-> Append(local[t].invoked, filter),
                                  inner |-> [op |-> InnerOf(filter.callback),
                                             hook |-> hook]]]
                /\ pc' = [pc EXCEPT ![t] = "inner_write"]
                /\ lock' = lock
                /\ IF InnerOf(filter.callback) = "add_filter"
                   THEN /\ FILTER_ID_COUNTER' = FILTER_ID_COUNTER + 1
                        /\ allocated' = allocated \cup {FILTER_ID_COUNTER}
                   ELSE UNCHANGED <<FILTER_ID_COUNTER, allocated>>
           ELSE /\ local' = [local EXCEPT ![t] =
                              Panicked("Type mismatch for filter hook")]
                /\ pc' = [pc EXCEPT ![t] = "panicked"]
                /\ lock' = [lock EXCEPT !.readers = @ \ {t}]
                /\ UNCHANGED <<FILTER_ID_COUNTER, allocated>>
    /\ UNCHANGED FILTERS

\* FILTERS.write() of the inner call. The write guard is granted when the
\* lock can grant it; otherwise the thread is parked, and as the read
\* guard that keeps it waiting is its own, it is parked for ever.
InnerWrite(t) ==
    /\ pc[t] = "inner_write"
    /\ IF CanWrite
       THEN /\ lock' = [lock EXCEPT !.writer = t]
            /\ pc' = [pc EXCEPT ![t] = "inner_acquired"]
       ELSE /\ lock' = lock
            /\ pc' = [pc EXCEPT ![t] = "deadlocked"]
    /\ UNCHANGED <<FILTERS, FILTER_ID_COUNTER, local, allocated>>

\* The other outcome std::sync::RwLock::write documents for a thread that
\* already holds the lock: the call panics. The panic unwinds the closure
\* and apply_filters, which drops the read guard.
InnerWritePanics(t) ==
    /\ pc[t] = "inner_write"
    /\ t \in lock.readers
    /\ ~CanWrite
    /\ local' = [local EXCEPT ![t] = Panicked("rwlock held by current thread")]
    /\ pc' = [pc EXCEPT ![t] = "panicked"]
    /\ lock' = [lock EXCEPT !.readers = @ \ {t}]
    /\ UNCHANGED <<FILTERS, FILTER_ID_COUNTER, allocated>>

NextReenter ==
    \E t \in Threads :
        \/ AddAlloc(t)
        \/ AddInsert(t)
        \/ AddReturn(t)
        \/ ApplyRead(t)
        \/ ApplyGet(t)
        \/ ~Reenters(t) /\ ApplyIterate(t)
        \/ ApplyIterateReenter(t)
        \/ InnerWrite(t)
        \/ InnerWritePanics(t)
        \/ ApplyDowncast(t)
        \/ ApplyReturn(t)
        \/ RemoveRetain(t)
        \/ RemoveReturn(t)
        \/ RemoveAllRemove(t)
        \/ RemoveAllReturn(t)

SpecReenter == InitReenter /\ [][NextReenter]_vars

\* ------------------------------------------------------------ properties
\* The program points of apply_filters at which the read guard is held.
ApplyPcs == {"apply_get", "apply_loop", "apply_return"}

\* The ids of a sequence of filters, in order.
IdsOf(list) == [k \in 1..Len(list) |-> list[k].id]

\* fn(...f2(f1(v))...) for the callbacks f1..fn of a sequence.
RECURSIVE FoldThrough(_, _)
FoldThrough(list, v) ==
    IF list = <<>> THEN v
    ELSE FoldThrough(Tail(list), Call(Head(list).callback, v))

\* C1: an apply_filters call that returns on an existing hook returns its
\* argument folded through the callbacks of the hook's sequence in sequence
\* order, having invoked each entry exactly once, in that order.
C1_ApplyFoldsInSequenceOrder ==
    \A t \in Threads :
        (pc[t] = "apply_return" /\ local[t].hook \in DOMAIN FILTERS) =>
            /\ IdsOf(local[t].invoked) = IdsOf(FILTERS[local[t].hook])
            /\ local[t].ret = FoldThrough(FILTERS[local[t].hook], local[t].value)

\* C1 witness: Scenario A, priority 10 "add 1" and priority 20 "multiply
\* by 3" applied to 4 returns 15.
C1_Witness ==
    \E t \in Threads :
        /\ pc[t] = "apply_return"
        /\ local[t].hook \in DOMAIN FILTERS
        /\ Len(FILTERS[local[t].hook]) = 2
        /\ FILTERS[local[t].hook][1].priority = 10
        /\ FILTERS[local[t].hook][1].callback = "add1"
        /\ FILTERS[local[t].hook][2].priority = 20
        /\ FILTERS[local[t].hook][2].callback = "mul3"
        /\ local[t].T = "i32"
        /\ local[t].value = 4
        /\ local[t].ret = 15

\* A hook that is absent from the registry or has an empty sequence.
NoFilters(F, hook) == hook \notin DOMAIN F \/ F[hook] = <<>>

\* C2: an apply_filters call on a hook that is absent or empty returns its
\* argument unchanged and has invoked no callback, and no step taken while
\* a dispatch is in progress changes the registry (the hook is not
\* created).
C2_NoFiltersIsIdentity ==
    [][ /\ \A t \in Threads :
            (pc'[t] = "apply_return" /\ NoFilters(FILTERS', local'[t].hook)) =>
                /\ local'[t].ret = local'[t].value
                /\ local'[t].invoked = <<>>
        /\ (\E t \in Threads : pc[t] \in ApplyPcs \/ pc'[t] \in ApplyPcs) =>
                FILTERS' = FILTERS ]_vars

\* C2 witness: a dispatch returns on a hook that exists with an empty
\* sequence, its last entry having been removed by remove_filter.
C2_Witness ==
    \E t \in Threads :
        /\ pc[t] = "apply_return"
        /\ local[t].hook \in DOMAIN FILTERS
        /\ FILTERS[local[t].hook] = <<>>
        /\ local[t].ret = local[t].value

\* C3: during a dispatch, whenever the callback of an entry of the hook
\* has been invoked, the callback of every entry of the hook with a lower
\* priority has been invoked before it.
C3_LowerPriorityRunsFirst ==
    \A t \in Threads :
        (pc[t] \in {"apply_loop", "apply_return"}
            /\ local[t].hook \in DOMAIN FILTERS) =>
            LET list == FILTERS[local[t].hook]
                inv == local[t].invoked
            IN  \A a, b \in 1..Len(list) :
                    list[a].priority < list[b].priority =>
                        \A k \in 1..Len(inv) :
                            inv[k].id = list[b].id =>
                                \E j \in 1..(k - 1) : inv[j].id = list[a].id

\* C3 witness: a dispatch has invoked a priority 10 callback and then a
\* priority 20 callback, the priority 10 one having been registered later.
C3_Witness ==
    \E t \in Threads :
        /\ pc[t] = "apply_return"
        /\ Len(local[t].invoked) = 2
        /\ local[t].invoked[1].priority < local[t].invoked[2].priority
        /\ local[t].invoked[1].id > local[t].invoked[2].id

\* The position of the entry with the given id in a sequence that holds it.
PosOf(list, id) == CHOOSE k \in 1..Len(list) : list[k].id = id

HasId(list, id) == \E k \in 1..Len(list) : list[k].id = id

\* C4: within a hook, an entry registered after another entry of the same
\* priority is placed after it, no step reverses two entries of equal
\* priority that both stay, and a dispatch invokes the entries in the
\* order of the sequence.
C4_EqualPriorityKeepsRegistrationOrder ==
    [][ /\ \A h \in DOMAIN FILTERS \cap DOMAIN FILTERS' :
            LET old == FILTERS[h]
                new == FILTERS'[h]
            IN  \A a, b \in 1..Len(new) :
                    (new[a].priority = new[b].priority
                        /\ HasId(old, new[a].id)
                        /\ (~HasId(old, new[b].id)
                              \/ PosOf(old, new[a].id) < PosOf(old, new[b].id)))
                    => a < b
        /\ \A t \in Threads :
            pc'[t] = "apply_loop" =>
                IdsOf(local'[t].invoked) =
                    SubSeq(IdsOf(FILTERS'[local'[t].hook]), 1, local'[t].i - 1)
      ]_vars

\* C4 witness: a dispatch has invoked two entries of equal priority, ids 1
\* and 3, in that order: the entry with id 2 was registered between them
\* and is not among them.
C4_Witness ==
    \E t \in Threads :
        /\ pc[t] = "apply_return"
        /\ Len(local[t].invoked) = 2
        /\ local[t].invoked[1].priority = local[t].invoked[2].priority
        /\ local[t].invoked[1].id = 1
        /\ local[t].invoked[2].id = 3

\* The places of the registry: a hook and a position in its sequence.
RegistryPlaces ==
    UNION {{<<h, k>> : k \in 1..Len(FILTERS[h])} : h \in DOMAIN FILTERS}

\* C5: each allocation returns an id that was never handed out before and
\* is greater than every id handed out before, the first being 1; no id is
\* 0; and no two entries of the registry, in the same hook or in different
\* hooks, nor two calls in progress, hold the same id.
C5_IdsUniqueAndIncreasing ==
    [][ /\ \A t \in Threads :
            (pc[t] = "idle" /\ pc'[t] = "add_write") =>
                LET id == local'[t].filter.id
                IN  /\ id \notin allocated
                    /\ \A old \in allocated : id > old
                    /\ allocated = {} => id = 1
                    /\ id # 0
                    /\ allocated' = allocated \cup {id}
        /\ \A x, y \in RegistryPlaces' :
            x # y => FILTERS'[x[1]][x[2]].id # FILTERS'[y[1]][y[2]].id
        /\ \A x \in RegistryPlaces' :
            /\ FILTERS'[x[1]][x[2]].id \in allocated'
            /\ FILTERS'[x[1]][x[2]].id # 0
        /\ \A t, u \in Threads :
            (t # u /\ local'[t].op = "add_filter" /\ local'[u].op = "add_filter")
                => local'[t].filter.id # local'[u].filter.id
      ]_vars

\* C5 witness: id 2 is handed out after the entry with id 1 was removed
\* from the registry.
C5_Witness ==
    \E t \in Threads :
        /\ pc[t] = "add_write"
        /\ local[t].filter.id = 2
        /\ \A h \in DOMAIN FILTERS : ~HasId(FILTERS[h], 1)
        /\ \A u \in Threads : local[u].op # "add_filter" \/ local[u].filter.id # 1

\* C6: a remove_filter call on a hook whose sequence holds an entry with
\* the given id returns true and leaves the sequence without that one
\* entry, the others in their order, and every other hook as it was; a
\* call on a hook whose sequence holds no such entry, as after that
\* removal, returns false.
C6_RemoveFilterRemovesExactlyOne ==
    [][ \A t \in Threads :
          (pc[t] = "idle" /\ pc'[t] = "remove_return"
              /\ local'[t].hook \in DOMAIN FILTERS) =>
              LET h == local'[t].hook
                  id == local'[t].id
                  list == FILTERS[h]
              IN  /\ HasId(list, id) =>
                        LET k == PosOf(list, id)
                        IN  /\ local'[t].ret = TRUE
                            /\ FILTERS'[h] =
                                  SubSeq(list, 1, k - 1) \o
                                  SubSeq(list, k + 1, Len(list))
                            /\ ~HasId(FILTERS'[h], id)
                            /\ DOMAIN FILTERS' = DOMAIN FILTERS
                            /\ \A g \in DOMAIN FILTERS \ {h} :
                                  FILTERS'[g] = FILTERS[g]
                  /\ ~HasId(list, id) => local'[t].ret = FALSE
      ]_vars

\* C6 witness: a remove_filter call has returned true on a hook that keeps
\* two entries, the removed one having been registered between them.
C6_Witness ==
    \E t \in Threads :
        /\ pc[t] = "remove_return"
        /\ local[t].ret = TRUE
        /\ local[t].id = 2
        /\ IdsOf(FILTERS[local[t].hook]) \in {<<1, 3>>, <<3, 1>>}

\* C7: a remove_filter call on a hook that is absent, or whose sequence
\* holds no entry with the given id (the id may belong to an entry of
\* another hook), returns false and leaves the registry unchanged.
C7_RemoveFilterNotFound ==
    [][ \A t \in Threads :
          (pc[t] = "idle" /\ pc'[t] = "remove_return"
              /\ (local'[t].hook \notin DOMAIN FILTERS
                    \/ ~HasId(FILTERS[local'[t].hook], local'[t].id))) =>
              /\ local'[t].ret = FALSE
              /\ FILTERS' = FILTERS
      ]_vars

\* C7 witness: a remove_filter call has returned false on a hook that does
\* not exist, the id being that of an entry of another hook.
C7_Witness ==
    \E t \in Threads :
        /\ pc[t] = "remove_return"
        /\ local[t].ret = FALSE
        /\ local[t].hook \notin DOMAIN FILTERS
        /\ \E g \in DOMAIN FILTERS : HasId(FILTERS[g], local[t].id)

\* An id that was handed out and is held by no entry and by no call in
\* progress: its entry was removed.
Gone(id) ==
    /\ id \in allocated
    /\ \A h \in DOMAIN FILTERS : ~HasId(FILTERS[h], id)
    /\ \A u \in Threads : local[u].op = "add_filter" => local[u].filter.id # id

\* C8: remove_all_filters leaves its hook absent from the registry; a
\* dispatch on an absent hook returns its argument unchanged; and an
\* add_filter on an absent hook leaves the hook with exactly the new
\* entry.
C8_RemoveAllDeletesHook ==
    [][ \A t \in Threads :
          /\ (pc[t] = "idle" /\ pc'[t] = "remove_all_return") =>
                local'[t].hook \notin DOMAIN FILTERS'
          /\ (pc[t] = "apply_get" /\ local[t].hook \notin DOMAIN FILTERS) =>
                /\ pc'[t] \in {"apply_get", "apply_return"}
                /\ pc'[t] = "apply_return" =>
                      /\ local'[t].ret = local[t].value
                      /\ local'[t].invoked = <<>>
          /\ (pc[t] = "add_write" /\ pc'[t] = "add_return"
                  /\ local[t].hook \notin DOMAIN FILTERS) =>
                FILTERS'[local[t].hook] = <<local[t].filter>>
      ]_vars

\* C8 witness: a remove_all_filters call has deleted a hook that existed,
\* the entry with id 1 being gone, and an add_filter call on that hook is
\* about to insert.
C8_Witness ==
    \E t, u \in Threads :
        /\ pc[t] = "remove_all_return"
        /\ local[t].removed = TRUE
        /\ local[t].hook \notin DOMAIN FILTERS
        /\ Gone(1)
        /\ pc[u] = "add_write"
        /\ local[u].hook = local[t].hook

\* C9: after a remove_all_filters call a second one on the same hook
\* would change nothing, and a call on a hook that does not exist leaves
\* the registry as it was.
C9_RemoveAllIdempotent ==
    [][ \A t \in Threads :
          (pc[t] = "idle" /\ pc'[t] = "remove_all_return") =>
              /\ RemoveKey(FILTERS', local'[t].hook) = FILTERS'
              /\ local'[t].hook \notin DOMAIN FILTERS => FILTERS' = FILTERS
              /\ local'[t].removed = (local'[t].hook \in DOMAIN FILTERS)
      ]_vars

\* C9 witness: a remove_all_filters call has found its hook absent, an
\* earlier entry having been removed, while the other hook holds entries.
C9_Witness ==
    \E t \in Threads :
        /\ pc[t] = "remove_all_return"
        /\ local[t].removed = FALSE
        /\ Gone(1)
        /\ \E h \in DOMAIN FILTERS : FILTERS[h] # <<>>

\* C10: a dispatch of a value of type T returns only from a hook all of
\* whose entries declare T, invokes only callbacks that declare T, and on
\* reaching an entry that declares another type panics with the hook's
\* type mismatch message.
C10_TypeMismatchPanics ==
    [][ \A t \in Threads :
          /\ (pc'[t] = "apply_return" /\ local'[t].hook \in DOMAIN FILTERS') =>
                \A k \in 1..Len(FILTERS'[local'[t].hook]) :
                    FILTERS'[local'[t].hook][k].type_id = local'[t].T
          /\ pc'[t] \in {"apply_loop", "apply_return"} =>
                \A k \in 1..Len(local'[t].invoked) :
                    local'[t].invoked[k].type_id = local'[t].T
          /\ (pc[t] = "apply_loop" /\ local'[t] # local[t]
                  /\ local[t].i <= Len(FILTERS[local[t].hook])
                  /\ FILTERS[local[t].hook][local[t].i].type_id # local[t].T) =>
                /\ pc'[t] = "panicked"
                /\ local'[t].msg = "Type mismatch for filter hook"
      ]_vars

\* C10 witness: a dispatch has panicked with the hook's type mismatch
\* message while a hook holds entries of two declared types.
C10_Witness ==
    \E t \in Threads :
        /\ pc[t] = "panicked"
        /\ local[t].msg = "Type mismatch for filter hook"
        /\ \E h \in DOMAIN FILTERS :
              /\ Len(FILTERS[h]) = 2
              /\ FILTERS[h][1].type_id # FILTERS[h][2].type_id

\* The filters of a sequence, as a set.
EntriesOf(list) == {list[k] : k \in 1..Len(list)}

\* A sequence in non-decreasing priority order.
Sorted(list) ==
    \A a, b \in 1..Len(list) : a < b => list[a].priority <= list[b].priority

\* C11: an add_filter call hands out an id not handed out before, and its
\* insertion, whatever the hook holds, leaves the hook present with the new
\* entry added to the entries it had, also when those declare another
\* type; the call then returns that id.
C11_AddFilterNeverFails ==
    [][ \A t \in Threads :
          /\ (pc[t] = "idle" /\ pc'[t] = "add_write") =>
                local'[t].filter.id \notin allocated
          /\ pc[t] = "add_write" =>
                /\ pc'[t] \in {"add_write", "add_return"}
                /\ pc'[t] = "add_return" =>
                      LET h == local[t].hook
                          old == IF h \in DOMAIN FILTERS
                                 THEN FILTERS[h] ELSE <<>>
                      IN  /\ h \in DOMAIN FILTERS'
                          /\ EntriesOf(FILTERS'[h]) =
                                EntriesOf(old) \cup {local[t].filter}
                          /\ Len(FILTERS'[h]) = Len(old) + 1
                          /\ local'[t].filter = local[t].filter
          /\ pc[t] = "add_return" => pc'[t] \in {"add_return", "idle"}
      ]_vars

\* C11 witness: an add_filter call has inserted its entry into a hook that
\* holds an entry of another declared type.
C11_Witness ==
    \E t \in Threads :
        /\ pc[t] = "add_return"
        /\ \E k \in 1..Len(FILTERS[local[t].hook]) :
              FILTERS[local[t].hook][k].type_id # local[t].filter.type_id
        /\ local[t].filter \in EntriesOf(FILTERS[local[t].hook])

\* C12: two add_filter calls in progress at once hold distinct ids; when
\* one of them inserts into a hook, the entries the hook holds, among them
\* the entry an overlapping call has inserted before, stay, its own entry
\* joins them, and the sequence is sorted by priority.
C12_ConcurrentAddsBothPresent ==
    [][ /\ \A t, u \in Threads :
            (t # u /\ local'[t].op = "add_filter"
                   /\ local'[u].op = "add_filter") =>
                local'[t].filter.id # local'[u].filter.id
        /\ \A t \in Threads :
            (pc[t] = "add_write" /\ pc'[t] = "add_return") =>
                LET h == local[t].hook
                    old == IF h \in DOMAIN FILTERS THEN FILTERS[h] ELSE <<>>
                IN  /\ \A e \in EntriesOf(old) :
                          /\ e \in EntriesOf(FILTERS'[h])
                          /\ e.id # local[t].filter.id
                    /\ local[t].filter \in EntriesOf(FILTERS'[h])
                    /\ Sorted(FILTERS'[h])
      ]_vars

\* C12 witness: the call that was handed id 1 has inserted into a hook in
\* which the call that was handed id 2 had inserted before it, and its
\* entry, of lower priority, stands first.
C12_Witness ==
    \E t \in Threads :
        /\ pc[t] = "add_return"
        /\ local[t].filter.id = 1
        /\ IdsOf(FILTERS[local[t].hook]) = <<1, 2>>
        /\ FILTERS[local[t].hook][1].priority < FILTERS[local[t].hook][2].priority

\* C13: in every reachable state the sequence of every hook is in
\* non-decreasing priority order.
C13_SequencesSorted ==
    \A h \in DOMAIN FILTERS : Sorted(FILTERS[h])

\* C13 witness: a hook holds an entry of priority 10 before an entry of
\* priority 20 that was registered earlier.
C13_Witness ==
    \E h \in DOMAIN FILTERS :
        /\ Len(FILTERS[h]) = 2
        /\ FILTERS[h][1].priority < FILTERS[h][2].priority
        /\ FILTERS[h][1].id > FILTERS[h][2].id

\* The program points at which a thread holds the write guard.
WritePcs == {"add_return", "remove_return", "remove_all_return"}

\* C14: a write guard and a read guard are never held at once and at most
\* one thread holds the write guard; no step changes the registry while a
\* dispatch holds its read guard, so a returning dispatch has invoked
\* exactly the entries its hook holds; and a step that changes the
\* registry is taken by the one thread that then holds the write guard.
C14_ExclusiveAndSharedNeverOverlap ==
    [][ /\ (lock'.writer # None => lock'.readers = {})
        /\ \A t \in Threads :
            /\ pc'[t] \in WritePcs <=> lock'.writer = t
            /\ pc'[t] \in ApplyPcs <=> t \in lock'.readers
        /\ \A t, u \in Threads :
            (pc'[t] \in WritePcs /\ pc'[u] \in WritePcs) => t = u
        /\ (lock.readers # {} => FILTERS' = FILTERS)
        /\ (FILTERS' # FILTERS =>
              \E t \in Threads :
                  /\ lock'.writer = t
                  /\ pc[t] # pc'[t]
                  /\ \A u \in Threads \ {t} :
                        pc'[u] = pc[u] /\ pc[u] \notin ApplyPcs \cup WritePcs)
        /\ \A t \in Threads :
            (pc'[t] = "apply_return" /\ local'[t].hook \in DOMAIN FILTERS') =>
                local'[t].invoked = FILTERS'[local'[t].hook]
      ]_vars

\* C14 witness: a dispatch has run the callback of its hook's one entry
\* and still holds its read guard, while an add_filter call on the same
\* hook, its id allocated, waits for the write guard.
C14_Witness ==
    \E t, u \in Threads :
        /\ pc[t] = "apply_loop"
        /\ local[t].i = 2
        /\ Len(local[t].invoked) = 1
        /\ pc[u] = "add_write"
        /\ local[u].hook = local[t].hook
        /\ ~HasId(FILTERS[local[t].hook], local[u].filter.id)

\* C15: a thread outside every call can acquire shared access whenever no
\* write guard is held and no writer waits, however many read guards are
\* held; the threads inside a dispatch are exactly the holders of read
\* guards.
C15_ReadersShareAccess ==
    \A t \in Threads :
        /\ (pc[t] = "idle" /\ lock.writer = None
                /\ \A u \in Threads : pc[u] # "add_write") =>
              ENABLED ApplyRead(t)
        /\ pc[t] \in ApplyPcs <=> t \in lock.readers

\* C15 witness: two dispatches on the same hook hold read guards at once,
\* both about to invoke the same registered callback.
C15_Witness ==
    /\ lock.readers = Threads
    /\ \A t \in Threads : pc[t] = "apply_loop" /\ local[t].i = 1
    /\ local["t1"].hook = local["t2"].hook
    /\ local["t1"].T = local["t2"].T
    /\ Len(FILTERS[local["t1"].hook]) >= 1
    /\ FILTERS[local["t1"].hook][1].type_id = local["t1"].T

\* A pair of positions of a sequence holding entries of equal priority,
\* the one with the larger id first.
Inverted(list, x, y) ==
    /\ x < y
    /\ list[x].priority = list[y].priority
    /\ list[x].id > list[y].id

\* C17 as claimed: in every reachable state the entries of equal priority
\* of a hook's sequence appear in ascending id order.
C17_EqualPriorityAscendingIds ==
    \A h \in DOMAIN FILTERS :
        \A x, y \in 1..Len(FILTERS[h]) : ~Inverted(FILTERS[h], x, y)

\* C17 as amended: two entries of equal priority stand with the larger id
\* first only from the step on in which an add_filter call inserts the
\* entry with the smaller id into a hook that already holds the one with
\* the larger id: a call that was handed its id earlier and acquired
\* exclusive access later than an overlapping call.
C17_LargerIdFirstOnlyFromOverlap ==
    [][ \A h \in DOMAIN FILTERS' :
          \A x, y \in 1..Len(FILTERS'[h]) :
              Inverted(FILTERS'[h], x, y) =>
                  LET hi == FILTERS'[h][x]
                      lo == FILTERS'[h][y]
                  IN  /\ h \in DOMAIN FILTERS
                      /\ hi \in EntriesOf(FILTERS[h])
                      /\ \/ /\ lo \in EntriesOf(FILTERS[h])
                            /\ PosOf(FILTERS[h], hi.id) < PosOf(FILTERS[h], lo.id)
                         \/ \E t \in Threads :
                              /\ pc[t] = "add_write"
                              /\ pc'[t] = "add_return"
                              /\ local[t].hook = h
                              /\ local[t].filter = lo
      ]_vars

\* C17 witness: a hook holds two entries of equal priority, the one with
\* id 2 before the one with id 1.
C17_Witness ==
    \E h \in DOMAIN FILTERS :
        /\ IdsOf(FILTERS[h]) = <<2, 1>>
        /\ FILTERS[h][1].priority = FILTERS[h][2].priority

\* The thread t takes the step: its position or its locals change.
Steps(t) == pc'[t] # pc[t] \/ local'[t] # local[t]

\* C18: a step of add_filter, remove_filter or remove_all_filters on a hook
\* leaves every other hook as it was (present or absent, same entries in
\* the same order), and every step of apply_filters, its panic included,
\* leaves the whole registry and the id counter unchanged.
C18_HookIsolation ==
    [][ \A t \in Threads :
          /\ (Steps(t) /\ pc'[t] \in WritePcs) =>
                \A k \in Hooks \ {local'[t].hook} :
                    /\ (k \in DOMAIN FILTERS') = (k \in DOMAIN FILTERS)
                    /\ k \in DOMAIN FILTERS => FILTERS'[k] = FILTERS[k]
          /\ (Steps(t) /\ (pc[t] \in ApplyPcs \/ pc'[t] \in ApplyPcs)) =>
                /\ FILTERS' = FILTERS
                /\ FILTER_ID_COUNTER' = FILTER_ID_COUNTER
      ]_vars

\* C18 witness: remove_filter has acted on a hook that holds an entry,
\* with an id that belongs to an entry of another hook, and that entry is
\* still there.
C18_Witness ==
    \E t \in Threads, k \in DOMAIN FILTERS :
        /\ pc[t] = "remove_return"
        /\ local[t].hook \in DOMAIN FILTERS
        /\ FILTERS[local[t].hook] # <<>>
        /\ k # local[t].hook
        /\ HasId(FILTERS[k], local[t].id)

\* C19: the step in which apply_filters panics changes neither the registry
\* nor the counter and drops the thread's read guard; a thread that has
\* panicked holds no guard, and every other thread can go on: an idle one
\* can start remove_filter, remove_all_filters and apply_filters, one
\* waiting in add_filter can take the write guard, and one that holds a
\* guard can take its next step.
C19_FaultLeavesRegistryAndReleasesAccess ==
    /\ [][ \A t \in Threads :
              (pc[t] # "panicked" /\ pc'[t] = "panicked") =>
                  /\ FILTERS' = FILTERS
                  /\ FILTER_ID_COUNTER' = FILTER_ID_COUNTER
                  /\ t \in lock.readers
                  /\ lock' = [lock EXCEPT !.readers = @ \ {t}]
          ]_vars
    /\ [](\A t \in Threads :
            pc[t] = "panicked" =>
                /\ t \notin lock.readers
                /\ lock.writer # t
                /\ \A u \in Threads \ {t} :
                      /\ pc[u] = "idle" =>
                            /\ ENABLED RemoveRetain(u)
                            /\ ENABLED RemoveAllRemove(u)
                            /\ ENABLED ApplyRead(u)
                      /\ pc[u] = "add_write" => ENABLED AddInsert(u)
                      /\ pc[u] = "add_return" => ENABLED AddReturn(u)
                      /\ pc[u] = "remove_return" => ENABLED RemoveReturn(u)
                      /\ pc[u] = "remove_all_return" =>
                            ENABLED RemoveAllReturn(u)
                      /\ pc[u] = "apply_get" => ENABLED ApplyGet(u)
                      /\ pc[u] = "apply_loop" =>
                            ENABLED (ApplyIterate(u) \/ ApplyDowncast(u))
                      /\ pc[u] = "apply_return" => ENABLED ApplyReturn(u))

\* C19 witness: one thread has panicked in apply_filters and another holds
\* the write guard inside add_filter, which it can only have taken after
\* the fault released the read guard; its entry is in the registry.
C19_Witness ==
    \E t, u \in Threads :
        /\ pc[t] = "panicked"
        /\ local[t].msg = "Type mismatch for filter hook"
        /\ pc[u] = "add_return"
        /\ lock.writer = u
        /\ local[u].filter \in EntriesOf(FILTERS[local[u].hook])

\* A call of the thread has been entered and has not returned.
Started(t) == pc[t] \notin {"ready", "idle"}

\* C16 as claimed: under fair scheduling every call that was started
\* eventually returns.
C16_EveryStartedCallReturns ==
    \A t \in ThreadsLive : Started(t) ~> (pc[t] = "idle")

\* C16 as amended: under fair scheduling every call that was started
\* eventually returns or, for apply_filters, ends in the type-consistency
\* panic; no call waits for the lock for ever.
C16_EveryStartedCallReturnsOrPanics ==
    \A t \in ThreadsLive : Started(t) ~> (pc[t] \in {"idle", "panicked"})

\* C16 witness: one call stands inside apply_filters with the read guard,
\* about to invoke an entry, while a started remove_filter call cannot
\* take the write guard.
C16_Witness ==
    \E t, u \in ThreadsLive :
        /\ pc[t] = "apply_loop"
        /\ t \in lock.readers
        /\ local[t].i <= Len(FILTERS[local[t].hook])
        /\ pc[u] = "remove_call"
        /\ ~ENABLED RemoveRetainFrom(u, "remove_call")

\* C20: a thread whose callback has called add_filter, remove_filter or
\* remove_all_filters from inside apply_filters never takes the write
\* guard: while it stands in the inner call it holds its read guard and no
\* write guard exists, and it only ever goes on to being parked for ever
\* or to a panic, so that neither the inner call nor apply_filters
\* returns.
C20_ReentrantWriteNeverGranted ==
    [][ \A t \in Threads :
          /\ pc[t] \in {"inner_write", "deadlocked"} =>
                /\ t \in lock.readers
                /\ lock.writer = None
                /\ lock'.writer # t
                /\ pc'[t] \in {"inner_write", "deadlocked", "panicked"}
          /\ pc[t] = "deadlocked" => pc'[t] = "deadlocked"
          /\ pc[t] = "panicked" => pc'[t] = "panicked"
          /\ pc'[t] = "inner_acquired" => pc[t] = "inner_acquired"
      ]_vars

\* C20 witness: a thread is parked in the inner remove_all_filters call its
\* callback made on another hook than the one being dispatched, and the
\* other thread waits in add_filter for the write guard.
C20_Witness ==
    \E t, u \in Threads :
        /\ pc[t] = "deadlocked"
        /\ local[t].inner.op = "remove_all_filters"
        /\ local[t].inner.hook # local[t].hook
        /\ pc[u] = "add_write"
        /\ ~ENABLED AddInsert(u)
====
